---------------------------- MODULE Spec2Model ----------------------------
(***************************************************************************)
(* Decoders of dtformats:                                                  *)
(*   - the MacOS keychain database file   (src/dtformats/keychain.py)      *)
(*   - the Custom Destinations Jump List  (src/dtformats/jump_list.py)     *)
(*   - the Automatic Destinations Jump List (src/dtformats/jump_list.py)   *)
(*                                                                         *)
(* Each decoder has its own specification (SpecKeychain, SpecCustom,       *)
(* SpecAuto); the variables of the other two decoders stay idle.           *)
(*                                                                         *)
(* Conventions.                                                            *)
(*   - A byte is a number 0..255, data is a sequence of bytes.             *)
(*   - An unsigned 32-bit value is written as its four base-256 digits,    *)
(*     most significant first (0xbabffbab is <<186,191,251,171>>), so no   *)
(*     value exceeds the range of the checker's integers.                  *)
(*   - Python's None is NoneVal, any other value x is Some(x).             *)
(*   - An exception that leaves ReadFileObject is recorded by its class    *)
(*     name in the decoder's error variable; "none" is no exception.       *)
(***************************************************************************)
EXTENDS Integers, Sequences, FiniteSets, TLC

VARIABLES
  \* ---- keychain.KeychainDatabaseFile
  kc_pc,            \* position in ReadFileObject
  kc_error,         \* exception raised out of ReadFileObject
  kc_tables,        \* self._tables (OrderedDict), as a sequence in key order
  kc_tables_array,  \* tables_array_offset, tables_array.table_offsets
  kc_numTables,     \* len(tables_array.table_offsets)
  kc_tableIdx,      \* index of the table of the loop of _ReadTablesArray
  kc_table_header,  \* table_header of _ReadTable, and its table_offset
  kc_recIdx,        \* index of the record offset of the loop of _ReadTable
  kc_record_offset, \* record_offset given to the last record handler
  kc_record,        \* what the last record handler read from the file
  kc_input,         \* the record the file holds where the handler read
  \* ---- jump_list.CustomDestinationsFile
  cd_file,          \* the bytes of the file; self._file_size is its length
  cd_pc,            \* position in ReadFileObject
  cd_error,         \* exception raised out of ReadFileObject
  cd_offset,        \* file_object.tell(): the cursor of the file object
  cd_file_offset,   \* file_offset of _ReadLNKFiles
  cd_remaining_file_size,  \* remaining_file_size of _ReadLNKFiles
  cd_first_guid_checked,   \* first_guid_checked of _ReadLNKFiles
  cd_entries,       \* self.entries
  cd_recovered_entries,    \* self.recovered_entries
  cd_run,           \* the number of the call of ReadFileObject on the object
  cd_first_result,  \* what the first call of ReadFileObject gave the caller
  \* ---- jump_list.AutomaticDestinationsFile
  ad_file,          \* the OLE container given to ReadFileObject
  ad_pc,            \* position in ReadFileObject
  ad_error,         \* exception raised out of ReadFileObject
  ad_open,          \* the container is open (olecf_file)
  ad_closes,        \* number of calls of olecf_file.close()
  ad_format_version,  \* self._format_version
  ad_stream_offset,   \* stream_offset of _ReadDestList
  ad_item,          \* index of olecf_item in the loop of _ReadLNKFiles
  ad_entries,       \* self.entries
  \* ---- keychain.KeychainDatabaseFile._ReadAttributeValueInteger
  av_pc,            \* position: before or after the call
  av_data,          \* attribute_values_data
  av_offset,        \* attribute_value_offset
  av_value          \* what the call returned or raised

kcvars == <<kc_pc, kc_error, kc_tables, kc_tables_array, kc_numTables,
            kc_tableIdx, kc_table_header, kc_recIdx, kc_record_offset,
            kc_record, kc_input>>

cdvars == <<cd_file, cd_pc, cd_error, cd_offset, cd_file_offset,
            cd_remaining_file_size, cd_first_guid_checked, cd_entries,
            cd_recovered_entries, cd_run, cd_first_result>>

advars == <<ad_file, ad_pc, ad_error, ad_open, ad_closes, ad_format_version,
            ad_stream_offset, ad_item, ad_entries>>

avvars == <<av_pc, av_data, av_offset, av_value>>

vars == <<kcvars, cdvars, advars, avvars>>

\* a step of one decoder leaves the other decoders alone
KFrame == UNCHANGED <<cdvars, advars, avvars>>
CFrame == UNCHANGED <<kcvars, advars, avvars>>
AFrame == UNCHANGED <<kcvars, cdvars, avvars>>

\* a step within one call of CustomDestinationsFile.ReadFileObject: nothing
\* writes recovered_entries
CRunFrame == UNCHANGED <<cd_recovered_entries, cd_run, cd_first_result>>
VFrame == UNCHANGED <<kcvars, cdvars, advars>>

-----------------------------------------------------------------------------
(* Bounds of the model *)

\* largest number of tables in the tables array of a keychain file
MaxTables == 3
\* largest number of record offsets in a keychain table header
MaxRecordOffsets == 2
\* largest number of entries (marker and shortcut) of a custom Jump List file
MaxEntries == 2
\* largest number of shortcut streams of an automatic Jump List container
MaxStreams == 3
\* largest number of entries of a DestList stream
MaxDestListEntries == 2
\* largest number of calls of ReadFileObject on one decoder object
MaxRuns == 2

-----------------------------------------------------------------------------
(* Values *)

NoneVal == [isNone |-> TRUE, v |-> <<>>]
Some(x) == [isNone |-> FALSE, v |-> x]

\* the four base-256 digits of a small number n < 256
U32(n) == <<0, 0, 0, n>>

Min(a, b) == IF a < b THEN a ELSE b
Max(a, b) == IF a > b THEN a ELSE b

\* Python's data[start:] for a sequence (indices from 0, negative from the end)
PySliceFrom(data, start) ==
  LET n == Len(data)
      s == IF start < 0 THEN Max(n + start, 0) ELSE Min(start, n)
  IN  SubSeq(data, s + 1, n)

\* Python's data[start:stop]
PySlice(data, start, stop) ==
  LET n == Len(data)
      s == IF start < 0 THEN Max(n + start, 0) ELSE Min(start, n)
      e == IF stop < 0 THEN Max(n + stop, 0) ELSE Min(stop, n)
  IN  SubSeq(data, s + 1, e)

\* bytes.decode('ascii') fails on a byte above 127
IsAscii(data) == \A i \in 1..Len(data) : data[i] < 128


-----------------------------------------------------------------------------
(* keychain.py: constants *)

\* _FILE_SIGNATURE = b'kych'
FILE_SIGNATURE == <<107, 121, 99, 104>>

RECORD_TYPE_CSSM_DL_DB_SCHEMA_INFO == 0
RECORD_TYPE_CSSM_DL_DB_SCHEMA_INDEXES == 1
RECORD_TYPE_CSSM_DL_DB_SCHEMA_ATTRIBUTES == 2

\* size of keychain_record_header: data_size, record_index, unknown2..unknown5
RECORD_HEADER_SIZE == 24

\* the attribute value offsets a schema information record must have
SCHEMA_INFO_OFFSETS == <<33, 37>>

\* _ReadRecordSchemaIndexes, offsets with no value for the last attribute
SchemaIndexesOffsetsLastUnset == <<45, 49, 53, 57, 0>>

\* the attribute value offsets a schema indexes record must have
SCHEMA_INDEXES_OFFSETS == <<45, 49, 53, 57, 61>>

\* KeychainDatabaseColumn
Column(attribute_identifier, attribute_name) ==
  [attribute_identifier |-> attribute_identifier,
   attribute_name |-> attribute_name]

\* KeychainDatabaseTable, as created by its constructor and filled in by
\* _ReadRecordSchemaInformation
Table(relation_identifier, relation_name) ==
  [relation_identifier |-> relation_identifier,
   relation_name |-> relation_name,
   columns |-> <<>>]

-----------------------------------------------------------------------------
(* keychain.py: the table registry self._tables, an OrderedDict *)

\* the keys of self._tables
TableKeys(tables) == {tables[i].relation_identifier : i \in 1..Len(tables)}

\* position of a key in self._tables
TablePos(tables, key) ==
  CHOOSE i \in 1..Len(tables) : tables[i].relation_identifier = key

\* self._tables[key] = table: a new key goes to the end, an existing key
\* keeps its place and gets the new value
TablesSet(tables, key, table) ==
  IF key \in TableKeys(tables)
    THEN [tables EXCEPT ![TablePos(tables, key)] = table]
    ELSE Append(tables, table)

\* table.columns.append(column) on the table under key
TablesAppendColumn(tables, key, column) ==
  [tables EXCEPT ![TablePos(tables, key)].columns = Append(@, column)]

-----------------------------------------------------------------------------
(* keychain.py: attribute values of a record *)

\* the result of a read: a value, or a ParseError
Value(v) == [err |-> FALSE, val |-> v]
ReadError == [err |-> TRUE, val |-> NoneVal]

\* uint32be read as a little-endian value
Uint32BEReversed(data) == <<data[4], data[3], data[2], data[1]>>

\* uint32be: the value of 4 bytes of which the first is the most significant,
\* as its digits, most significant first
Uint32BE(data) == <<data[1], data[2], data[3], data[4]>>

\* _ReadAttributeValueInteger: uint32be at the attribute value offset
ReadAttributeValueInteger(attribute_values_data, attribute_values_data_offset, attribute_value_offset) ==
  IF attribute_value_offset = 0 THEN Value(NoneVal)
  ELSE
    LET offset == attribute_value_offset - (attribute_values_data_offset + 1)
        attribute_value_data == PySliceFrom(attribute_values_data, offset)
    IN  IF Len(attribute_value_data) < 4 THEN ReadError
        ELSE Value(Some(Uint32BE(SubSeq(attribute_value_data, 1, 4))))

\* _ReadAttributeValueString: keychain_string (uint32be size, then that many
\* ASCII characters) at the attribute value offset
ReadAttributeValueString(attribute_values_data, attribute_values_data_offset, attribute_value_offset) ==
  IF attribute_value_offset = 0 THEN Value(NoneVal)
  ELSE
    LET offset == attribute_value_offset - (attribute_values_data_offset + 1)
        attribute_value_data == PySliceFrom(attribute_values_data, offset)
        n == Len(attribute_value_data)
    IN  IF n < 4 THEN ReadError
        ELSE LET size == SubSeq(attribute_value_data, 1, 4)
                 string == SubSeq(attribute_value_data, 5, 4 + size[4])
             IN  IF \/ size[1] # 0 \/ size[2] # 0 \/ size[3] # 0
                    \/ n < 4 + size[4]
                    \/ ~IsAscii(string)
                   THEN ReadError
                   ELSE Value(Some(string))

\* the offset of the attribute values data from the start of a schema
\* attributes record: the record header and 6 attribute value offsets
ATTRIBUTE_VALUES_DATA_OFFSET == 48

\* the bytes an attribute value is made of
AttributeBytes == {0, 1, 128, 255}

\* attribute values data with an integer value at its start or after two
\* other bytes, and the attribute value offset of the integer value
AVInit ==
  /\ av_pc = "call"
  /\ \E pad \in {<<>>, <<7, 9>>}, value \in [1..4 -> AttributeBytes] :
       /\ av_data = pad \o value \o <<5>>
       /\ av_offset = ATTRIBUTE_VALUES_DATA_OFFSET + 1 + Len(pad)
  /\ av_value = Value(NoneVal)

\* no integer attribute value is being read
AVIdle ==
  /\ av_pc = "idle"
  /\ av_data = <<>>
  /\ av_offset = 0
  /\ av_value = Value(NoneVal)

\* _ReadAttributeValueInteger is called and returns
AVReadAttributeValueInteger ==
  /\ VFrame
  /\ av_pc = "call"
  /\ av_value' = ReadAttributeValueInteger(
       av_data, ATTRIBUTE_VALUES_DATA_OFFSET, av_offset)
  /\ av_pc' = "returned"
  /\ UNCHANGED <<av_data, av_offset>>

AVNext == AVReadAttributeValueInteger

-----------------------------------------------------------------------------
(* keychain.py: the records a file can hold at a record offset *)

\* A schema information record: whether its header, offsets and values can be
\* read, its attribute value offsets, relation_identifier and relation_name.
SchemaInformationRecord(readable, offsets, relation_identifier, name) ==
  [readable |-> readable, attribute_value_offsets |-> offsets,
   relation_identifier |-> relation_identifier, relation_name |-> name]

SchemaInformationRecords ==
  { SchemaInformationRecord(TRUE, <<33, 37>>, U32(1), <<97>>),
    SchemaInformationRecord(TRUE, <<33, 37>>, U32(2), <<98>>),
    SchemaInformationRecord(TRUE, <<33, 37>>, U32(1), <<200>>),
    SchemaInformationRecord(TRUE, <<33, 41>>, U32(2), <<98>>),
    SchemaInformationRecord(FALSE, <<33, 37>>, U32(1), <<97>>) }

\* A schema indexes record.
SchemaIndexesRecord(readable, offsets, relation_identifier) ==
  [readable |-> readable, attribute_value_offsets |-> offsets,
   relation_identifier |-> relation_identifier]

SchemaIndexesRecords ==
  { SchemaIndexesRecord(TRUE, <<45, 49, 53, 57, 61>>, U32(1)),
    SchemaIndexesRecord(TRUE, <<45, 49, 53, 57, 61>>, U32(3)),
    SchemaIndexesRecord(TRUE, <<45, 49, 53, 57, 0>>, U32(1)),
    SchemaIndexesRecord(FALSE, <<45, 49, 53, 57, 61>>, U32(1)) }

\* A schema attributes record: whether its header and offsets can be read,
\* its six attribute value offsets and its attribute values data.
SchemaAttributesRecord(readable, offsets, data) ==
  [readable |-> readable, attribute_value_offsets |-> offsets,
   attribute_values_data |-> data]

\* Attribute values data: relation identifier, attribute identifier,
\* attribute name data type, attribute name (size 1), attribute data type.
AttributeValuesData(relation_identifier, attribute_identifier, name) ==
  relation_identifier \o attribute_identifier \o U32(0)
    \o U32(1) \o <<name>> \o U32(2)

\* The offsets of the values of AttributeValuesData: the values data starts
\* 48 bytes into the record and offsets are one more than the position.
AllOffsets == <<49, 53, 57, 61, 0, 66>>

SchemaAttributesRecords ==
  { \* every value present, relation 1
    SchemaAttributesRecord(TRUE, AllOffsets,
        AttributeValuesData(U32(1), U32(7), 110)),
    \* no attribute name: the name is the identifier token 'cdat'
    SchemaAttributesRecord(TRUE, <<49, 53, 57, 0, 0, 66>>,
        AttributeValuesData(U32(1), <<99, 100, 97, 116>>, 110)),
    \* no attribute name, and an identifier that is not ASCII
    SchemaAttributesRecord(TRUE, <<49, 53, 57, 0, 0, 66>>,
        AttributeValuesData(U32(1), <<200, 0, 0, 1>>, 110)),
    \* relation 2
    SchemaAttributesRecord(TRUE, AllOffsets,
        AttributeValuesData(U32(2), U32(7), 110)),
    \* relation 3, which no schema information record defines
    SchemaAttributesRecord(TRUE, AllOffsets,
        AttributeValuesData(U32(3), U32(7), 110)),
    \* no relation identifier
    SchemaAttributesRecord(TRUE, <<0, 53, 57, 61, 0, 66>>,
        AttributeValuesData(U32(1), U32(7), 110)),
    \* relation identifier offset past the end of the values data
    SchemaAttributesRecord(TRUE, <<71, 53, 57, 61, 0, 66>>,
        AttributeValuesData(U32(1), U32(7), 110)),
    \* relation identifier offset before the start of the values data
    SchemaAttributesRecord(TRUE, <<45, 53, 57, 61, 0, 66>>,
        AttributeValuesData(U32(1), U32(7), 110)),
    \* header or offsets cannot be read
    SchemaAttributesRecord(FALSE, AllOffsets,
        AttributeValuesData(U32(1), U32(7), 110)) }

\* the record a handler has read: its kind, the relation identifier it read
\* (None when it read none) and whether the record was accepted
Record(kind, relation_identifier, accepted) ==
  [kind |-> kind, relation_identifier |-> relation_identifier,
   accepted |-> accepted]

NoRecord == Record("none", NoneVal, FALSE)

\* no record of the file has been read
NoInput == [readable |-> FALSE]

-----------------------------------------------------------------------------
(* keychain.py: KeychainDatabaseFile *)

\* no tables array has been read
NoTablesArray == [offset |-> 0, table_offsets |-> <<>>]

\* table_header of _ReadTable with the table_offset it was read at: the
\* record type and the record offsets
TableHeader(offset, record_type, record_offsets) ==
  [offset |-> offset, record_type |-> record_type,
   number_of_record_offsets |-> Len(record_offsets),
   record_offsets |-> record_offsets]

\* no table header has been read
NoTableHeader == TableHeader(0, 0, <<>>)

\* file_header.tables_array_offset of the files that are decoded
TablesArrayOffsets == {20}

\* tables_array.table_offsets of the files that are decoded: up to
\* MaxTables tables, in the order of their offsets or in the opposite order
TableOffsetSeqs ==
  UNION { { [i \in 1..n |-> 8 * i], [i \in 1..n |-> 8 * (n + 1 - i)] } :
            n \in 0..MaxTables }

\* table_header.record_offsets of the files that are decoded; 0 is an
\* offset that is not set, and no two records are at the same offset
RecordOffsetSeqs ==
  UNION { { offsets \in [1..n -> {0, 12, 40}] :
              \A i, j \in 1..n :
                (i # j /\ offsets[i] # 0) => offsets[i] # offsets[j] } :
          n \in 0..MaxRecordOffsets }

\* _ReadTablesArray: the table_offset given to _ReadTable
TableOffset(tables_array_offset, table_offset) ==
  tables_array_offset + table_offset

\* the record_offset of the table header given to a record handler as it is
RecordOffsetUnshifted(table_offset, record_offset) == record_offset

\* _ReadTable: the record_offset given to a record handler
RecordOffset(table_offset, record_offset) == record_offset + table_offset

\* KeychainDatabaseFile.__init__
KInit ==
  /\ kc_pc = "start"
  /\ kc_error = "none"
  /\ kc_tables = <<>>
  /\ kc_tables_array = NoTablesArray
  /\ kc_numTables = 0
  /\ kc_tableIdx = 0
  /\ kc_table_header = NoTableHeader
  /\ kc_recIdx = 0
  /\ kc_record_offset = 0
  /\ kc_record = NoRecord
  /\ kc_input = NoInput

\* an exception leaves ReadFileObject
KRaise(error) ==
  /\ kc_pc' = "failed"
  /\ kc_error' = error
  /\ UNCHANGED <<kc_tables_array, kc_numTables, kc_tableIdx,
                 kc_table_header, kc_recIdx>>

\* _ReadTablesArray: the next table of the loop over table_offsets, or
\* the end of ReadFileObject
KNextTable ==
  IF kc_tableIdx < kc_numTables
    THEN /\ kc_pc' = "table"
         /\ kc_tableIdx' = kc_tableIdx + 1
    ELSE /\ kc_pc' = "done"
         /\ UNCHANGED kc_tableIdx

\* _ReadTable: the next record offset of the loop over record_offsets,
\* or the return to _ReadTablesArray
KNextRecord ==
  /\ kc_error' = "none"
  /\ UNCHANGED <<kc_tables_array, kc_numTables, kc_table_header>>
  /\ IF kc_recIdx < kc_table_header.number_of_record_offsets
       THEN /\ kc_pc' = "record"
            /\ kc_recIdx' = kc_recIdx + 1
            /\ UNCHANGED kc_tableIdx
       ELSE /\ kc_recIdx' = 0
            /\ KNextTable

\* ReadFileObject, _ReadFileHeader: the header is read and its signature
\* compared
KReadFileHeader ==
  /\ KFrame
  /\ kc_pc = "start"
  /\ \E readable \in BOOLEAN,
        signature \in {FILE_SIGNATURE, <<107, 121, 99, 105>>},
        tables_array_offset \in TablesArrayOffsets :
       IF ~readable \/ signature # FILE_SIGNATURE
         THEN KRaise("ParseError")
         ELSE /\ kc_pc' = "tables_array"
              /\ kc_tables_array' =
                   [kc_tables_array EXCEPT !.offset = tables_array_offset]
              /\ UNCHANGED <<kc_error, kc_numTables, kc_tableIdx,
                             kc_table_header, kc_recIdx>>
  /\ UNCHANGED <<kc_tables, kc_record_offset, kc_record, kc_input>>

\* _ReadTablesArray: the tables array is read, the loop starts
KReadTablesArray ==
  /\ KFrame
  /\ kc_pc = "tables_array"
  /\ \E readable \in BOOLEAN, table_offsets \in TableOffsetSeqs :
       IF ~readable
         THEN KRaise("ParseError")
         ELSE /\ kc_tables_array' =
                   [kc_tables_array EXCEPT !.table_offsets = table_offsets]
              /\ kc_numTables' = Len(table_offsets)
              /\ IF Len(table_offsets) > 0
                   THEN kc_pc' = "table" /\ kc_tableIdx' = 1
                   ELSE kc_pc' = "done" /\ kc_tableIdx' = 0
              /\ UNCHANGED <<kc_error, kc_table_header, kc_recIdx>>
  /\ UNCHANGED <<kc_tables, kc_record_offset, kc_record, kc_input>>

\* _ReadTable, _ReadTableHeader: the table header is read, the loop over
\* its record offsets starts
KReadTableHeader ==
  /\ KFrame
  /\ kc_pc = "table"
  /\ \E readable \in BOOLEAN, record_type \in 0..3,
        record_offsets \in RecordOffsetSeqs :
       IF ~readable
         THEN KRaise("ParseError")
         ELSE /\ kc_table_header' =
                   TableHeader(
                     TableOffset(kc_tables_array.offset,
                                 kc_tables_array.table_offsets[kc_tableIdx]),
                     record_type, record_offsets)
              /\ kc_error' = "none"
              /\ UNCHANGED <<kc_tables_array, kc_numTables>>
              /\ IF Len(record_offsets) > 0
                   THEN /\ kc_pc' = "record"
                        /\ kc_recIdx' = 1
                        /\ UNCHANGED kc_tableIdx
                   ELSE /\ kc_recIdx' = 0
                        /\ KNextTable
  /\ UNCHANGED <<kc_tables, kc_record_offset, kc_record, kc_input>>

\* _ReadTable: record_offset of the pass of the loop over record_offsets
CurrentRecordOffset == kc_table_header.record_offsets[kc_recIdx]

\* _ReadTable: a record offset that is set is given to a record handler,
\* after the table offset was added to it
KRecordAt ==
  /\ CurrentRecordOffset # 0
  /\ kc_record_offset' =
       RecordOffset(kc_table_header.offset, CurrentRecordOffset)

\* _ReadTable: a record offset of 0 is skipped
KSkipRecordOffset ==
  /\ KFrame
  /\ kc_pc = "record"
  /\ CurrentRecordOffset = 0
  /\ KNextRecord
  /\ kc_record' = Record("skipped", NoneVal, FALSE)
  /\ UNCHANGED <<kc_input, kc_record_offset>>
  /\ UNCHANGED kc_tables

\* a record handler raises: nothing but the exception is recorded
KRecordFails(kind, relation_identifier, error) ==
  /\ KRaise(error)
  /\ kc_record' = Record(kind, relation_identifier, FALSE)
  /\ UNCHANGED kc_tables

\* _ReadRecordSchemaInformation (record type 0)
KReadRecordSchemaInformation ==
  /\ KFrame
  /\ kc_pc = "record"
  /\ kc_table_header.record_type = RECORD_TYPE_CSSM_DL_DB_SCHEMA_INFO
  /\ KRecordAt
  /\ \E rec \in SchemaInformationRecords : kc_input' = rec /\ (
       LET key == rec.relation_identifier IN
       IF ~rec.readable
         THEN KRecordFails("information", NoneVal, "ParseError")
       ELSE IF rec.attribute_value_offsets # SCHEMA_INFO_OFFSETS
         THEN KRecordFails("information", NoneVal, "ParseError")
       ELSE IF ~IsAscii(rec.relation_name)
         THEN KRecordFails("information", Some(key), "UnicodeDecodeError")
       ELSE /\ kc_tables' =
                 TablesSet(kc_tables, key, Table(key, rec.relation_name))
            /\ kc_record' = Record("information", Some(key), TRUE)
            /\ KNextRecord)

\* _ReadRecordSchemaIndexes without its check of the relation identifier
RelationDefinedUnchecked(tables, key) == TRUE

\* _ReadRecordSchemaIndexes: relation_identifier in self._tables
RelationDefined(tables, key) == key \in TableKeys(tables)

\* _ReadRecordSchemaIndexes (record type 1)
KReadRecordSchemaIndexes ==
  /\ KFrame
  /\ kc_pc = "record"
  /\ kc_table_header.record_type = RECORD_TYPE_CSSM_DL_DB_SCHEMA_INDEXES
  /\ KRecordAt
  /\ \E rec \in SchemaIndexesRecords : kc_input' = rec /\ (
       LET key == rec.relation_identifier IN
       IF ~rec.readable
         THEN KRecordFails("indexes", NoneVal, "ParseError")
       ELSE IF rec.attribute_value_offsets # SCHEMA_INDEXES_OFFSETS
         THEN KRecordFails("indexes", NoneVal, "ParseError")
       ELSE IF ~RelationDefined(kc_tables, key)
         THEN KRecordFails("indexes", Some(key), "ParseError")
       ELSE /\ kc_record' = Record("indexes", Some(key), TRUE)
            /\ UNCHANGED kc_tables
            /\ KNextRecord)

\* the exceptions of '0x{0:08}'.format(None): TypeError with Python 3,
\* ValueError with Python 2
FormatNoneErrors == {"TypeError", "ValueError"}

\* _ReadRecordSchemaAttributes: the lookup of the table of the record;
\* "found", or the exception raised
LookupTable(tables, relation_identifier) ==
  IF relation_identifier.isNone THEN FormatNoneErrors
  ELSE IF relation_identifier.v \notin TableKeys(tables) THEN {"ParseError"}
  ELSE {"found"}

\* _ReadRecordSchemaAttributes (record type 2)
KReadRecordSchemaAttributes ==
  /\ KFrame
  /\ kc_pc = "record"
  /\ kc_table_header.record_type = RECORD_TYPE_CSSM_DL_DB_SCHEMA_ATTRIBUTES
  /\ KRecordAt
  /\ \E rec \in SchemaAttributesRecords : kc_input' = rec /\ (
       LET offsets == rec.attribute_value_offsets
           data == rec.attribute_values_data
           attribute_values_data_offset == RECORD_HEADER_SIZE + 6 * 4
           relation_identifier == ReadAttributeValueInteger(
               data, attribute_values_data_offset, offsets[1])
           attribute_identifier == ReadAttributeValueInteger(
               data, attribute_values_data_offset, offsets[2])
           attribute_name_data_type == ReadAttributeValueInteger(
               data, attribute_values_data_offset, offsets[3])
           attribute_name == ReadAttributeValueString(
               data, attribute_values_data_offset, offsets[4])
           attribute_data_type == ReadAttributeValueInteger(
               data, attribute_values_data_offset, offsets[6])
           attribute_value_offset ==
               offsets[2] - (attribute_values_data_offset + 1)
           token == PySlice(data, attribute_value_offset,
                            attribute_value_offset + 4)
           use_token == attribute_name.val.isNone /\ offsets[2] # 0
       IN
       IF ~rec.readable
         THEN KRecordFails("attributes", NoneVal, "ParseError")
       ELSE IF relation_identifier.err
         THEN KRecordFails("attributes", NoneVal, "ParseError")
       ELSE IF \/ attribute_identifier.err \/ attribute_name_data_type.err
               \/ attribute_name.err \/ attribute_data_type.err
         THEN KRecordFails("attributes", relation_identifier.val,
                           "ParseError")
       ELSE \E found \in LookupTable(kc_tables, relation_identifier.val) :
         IF found # "found"
           THEN KRecordFails("attributes", relation_identifier.val, found)
         ELSE IF use_token /\ ~IsAscii(token)
           THEN KRecordFails("attributes", relation_identifier.val,
                             "UnicodeDecodeError")
         ELSE /\ kc_tables' = TablesAppendColumn(
                     kc_tables, relation_identifier.val.v,
                     Column(attribute_identifier.val,
                            IF use_token THEN Some(token)
                                         ELSE attribute_name.val))
              /\ kc_record' =
                   Record("attributes", relation_identifier.val, TRUE)
              /\ KNextRecord)

\* _ReadRecord (any other record type): the record header is read
KReadRecord ==
  /\ KFrame
  /\ kc_pc = "record"
  /\ kc_table_header.record_type \notin
       { RECORD_TYPE_CSSM_DL_DB_SCHEMA_INFO,
         RECORD_TYPE_CSSM_DL_DB_SCHEMA_INDEXES,
         RECORD_TYPE_CSSM_DL_DB_SCHEMA_ATTRIBUTES }
  /\ KRecordAt
  /\ \E readable \in BOOLEAN : kc_input' = [readable |-> readable] /\ (
       IF ~readable
         THEN KRecordFails("opaque", NoneVal, "ParseError")
         ELSE /\ kc_record' = Record("opaque", NoneVal, TRUE)
              /\ UNCHANGED kc_tables
              /\ KNextRecord)

\* no keychain file is being decoded
KIdle ==
  /\ kc_pc = "idle"
  /\ kc_error = "none"
  /\ kc_tables = <<>>
  /\ kc_tables_array = NoTablesArray
  /\ kc_numTables = 0
  /\ kc_tableIdx = 0
  /\ kc_table_header = NoTableHeader
  /\ kc_recIdx = 0
  /\ kc_record_offset = 0
  /\ kc_record = NoRecord
  /\ kc_input = NoInput

KNext ==
  \/ KReadFileHeader
  \/ KReadTablesArray
  \/ KReadTableHeader
  \/ KSkipRecordOffset
  \/ KReadRecordSchemaInformation
  \/ KReadRecordSchemaIndexes
  \/ KReadRecordSchemaAttributes
  \/ KReadRecord

-----------------------------------------------------------------------------
(* jump_list.py: constants and byte layouts of CustomDestinationsFile *)

\* file_header: unknown1, unknown2, unknown3, header_values_type (4 x uint32)
FILE_HEADER_SIZE == 16
\* file_header_value_type_1_or_2: number_of_entries (uint32)
HEADER_VALUE_TYPE_1_OR_2_SIZE == 4
\* file_footer: signature (uint32)
FILE_FOOTER_SIZE == 4
\* _FILE_FOOTER_SIGNATURE = 0xbabffbab
FILE_FOOTER_SIGNATURE == <<186, 191, 251, 171>>
\* entry_header: guid (16 bytes)
ENTRY_HEADER_SIZE == 16
\* _LNK_GUID
LNK_GUID == <<1, 20, 2, 0, 0, 0, 0, 0, 192, 0, 0, 0, 0, 0, 0, 70>>

\* a little-endian uint32 of the file: its digits, most significant first
Uint32LE(data) == <<data[4], data[3], data[2], data[1]>>

\* a > b for two unsigned 32-bit values
GreaterU32(a, b) ==
  \E i \in 1..4 : a[i] > b[i] /\ \A j \in 1..(i - 1) : a[j] = b[j]

\* the hexadecimal digits of '{0:08x}'.format(n)
RECURSIVE HexDigits(_, _)
HexDigits(n, width) ==
  IF width <= 1 /\ n < 16 THEN <<n>>
  ELSE Append(HexDigits(n \div 16, width - 1), n % 16)

\* '0x{0:08x}'.format(file_offset)
FormatOffset(file_offset) == HexDigits(file_offset, 8)

\* _ReadStructure: seek to file_offset, read data_size bytes; fewer bytes are
\* a ParseError.  offset is the cursor after the read.
ReadStructure(file, file_offset, data_size) ==
  LET end == Min(file_offset + data_size, Len(file))
      data == SubSeq(file, file_offset + 1, end)
  IN  [err |-> Len(data) # data_size, data |-> data,
       offset |-> Max(file_offset, end)]

\* data_range.DataRange(file_object, data_offset, data_size): the bytes the
\* range gives access to
DataRange(file, data_offset, data_size) ==
  SubSeq(file, data_offset + 1, Min(data_offset + data_size, Len(file)))

\* LNKFileEntry.Open, a data_size that is the size of the data given instead
\* of the offset the decoder stopped at
LNKFileEntryOpenNominalSize(lnk_data) ==
  IF Len(lnk_data) = 0 \/ lnk_data[1] = 0 \/ lnk_data[1] > Len(lnk_data)
    THEN [err |-> TRUE, data_size |-> 0]
    ELSE [err |-> FALSE, data_size |-> Len(lnk_data)]

\* LNKFileEntry.Open on a data range: the shortcut decoder reads the shortcut
\* at the start of the range and data_size is the offset it stopped at.
\* The decoder stands for pylnk: the first byte of a shortcut is its size, a
\* size of 0 or one beyond the range is an IOError.
LNKFileEntryOpen(lnk_data) ==
  IF Len(lnk_data) = 0 \/ lnk_data[1] = 0 \/ lnk_data[1] > Len(lnk_data)
    THEN [err |-> TRUE, data_size |-> 0]
    ELSE [err |-> FALSE, data_size |-> lnk_data[1]]

\* LNKFileEntry
LNKFileEntry(identifier, data_size) ==
  [identifier |-> identifier, data_size |-> data_size]

\* _ReadLNKFile, the exception it raises leaves the IOError of the decoder
\* as it is
LNKFileErrorUnwrapped == "IOError"

\* _ReadLNKFile: the IOError of the decoder is raised as a ParseError
LNKFileError == "ParseError"

\* CustomDestinationsFile._ReadLNKFile on the data range of an entry: the
\* identifier is formatted from tell() of the range, which is relative to the
\* start of the range
ReadLNKFile(lnk_data) ==
  LET file_offset == 0
      opened == LNKFileEntryOpen(lnk_data)
  IN  IF opened.err
        THEN [err |-> TRUE, error |-> LNKFileError,
              entry |-> LNKFileEntry(FormatOffset(file_offset), 0)]
        ELSE [err |-> FALSE, error |-> "none",
              entry |-> LNKFileEntry(FormatOffset(file_offset),
                                     opened.data_size)]

\* _ReadFileHeader, the header check that lets header value type 3 pass
HeaderSupportedOffByOne(file_header) ==
  /\ file_header.unknown1 = U32(2)
  /\ ~GreaterU32(file_header.header_values_type, U32(3))

\* _ReadFileHeader: unknown1 is 2 and header_values_type is at most 2
HeaderSupported(file_header) ==
  /\ file_header.unknown1 = U32(2)
  /\ ~GreaterU32(file_header.header_values_type, U32(2))

\* _ReadFileFooter, the check that takes any signature
FooterValidAny(signature) == TRUE

\* _ReadFileFooter: the signature is _FILE_FOOTER_SIGNATURE
FooterValid(signature) == signature = FILE_FOOTER_SIGNATURE

\* _ReadLNKFiles, a marker failure that is never fatal
MarkerFailureFatalNever(first_guid_checked) == FALSE

\* _ReadLNKFiles, a marker failure that is always fatal
MarkerFailureFatalAlways(first_guid_checked) == TRUE

\* _ReadLNKFiles: a marker that cannot be read or is not the LNK class
\* identifier is fatal as long as no marker was accepted
MarkerFailureFatal(first_guid_checked) == ~first_guid_checked

-----------------------------------------------------------------------------
(* jump_list.py: the custom Jump List files that are decoded *)

\* a uint32 below 256 as stored in the file
LE32(n) == <<n, 0, 0, 0>>

FileHeaderBytes(unknown1, header_values_type) ==
  LE32(unknown1) \o LE32(0) \o LE32(0) \o LE32(header_values_type)

\* the header value: type 0 has a character count, the characters and
\* the number of entries, the other types the number of entries
HeaderValueBytes(header_values_type, number_of_entries) ==
  IF header_values_type = 0
    THEN <<1, 0>> \o <<65, 0>> \o LE32(number_of_entries)
    ELSE LE32(number_of_entries)

\* a shortcut of the given size (at least 1) the decoder accepts
ShortcutBytes(size) == [i \in 1..size |-> IF i = 1 THEN size ELSE 7]

\* an entry: the marker and a shortcut of that size; size 0 is a shortcut the
\* decoder rejects
EntryBytes(size) ==
  LNK_GUID \o (IF size = 0 THEN <<0, 7, 7, 7>> ELSE ShortcutBytes(size))

RECURSIVE EntriesBytes(_)
EntriesBytes(sizes) ==
  IF sizes = <<>> THEN <<>>
  ELSE EntryBytes(Head(sizes)) \o EntriesBytes(Tail(sizes))

FooterBytes == <<171, 251, 191, 186>>

\* what follows the entries
Tails ==
  { FooterBytes,                              \* the footer
    <<1, 2, 3, 4>>,                           \* another footer
    <<>>,                                     \* nothing
    <<171, 251>>,                             \* a cut footer
    <<9, 9, 9, 9, 9, 9, 9, 9>>,               \* a cut marker
    FooterBytes \o <<9, 9, 9, 9>>,            \* footer, then a cut marker
    FooterBytes \o [i \in 1..12 |-> 9],       \* footer and trailing data
    [i \in 1..16 |-> 9],                      \* 16 bytes that are no marker
    LNK_GUID }                                \* a marker and no shortcut

\* the sizes of the shortcuts of the entries; 0 is a rejected shortcut
ShortcutSizes == {0, 5, 8}

SizeSeqs == UNION { [1..n -> ShortcutSizes] : n \in 0..MaxEntries }

CustomFile(unknown1, header_values_type, sizes, tail) ==
  FileHeaderBytes(unknown1, header_values_type)
    \o HeaderValueBytes(header_values_type, Len(sizes))
    \o EntriesBytes(sizes) \o tail

\* files with a header too short to read, and with no header value
CutFiles ==
  { <<>>, <<2, 0, 0, 0, 0, 0>>, FileHeaderBytes(2, 1),
    FileHeaderBytes(2, 1) \o <<1, 0>> }

CustomFiles ==
  { CustomFile(unknown1, header_values_type, sizes, tail) :
      unknown1 \in {1, 2}, header_values_type \in 0..3,
      sizes \in SizeSeqs, tail \in Tails }
  \cup CutFiles

-----------------------------------------------------------------------------
(* jump_list.py: CustomDestinationsFile *)

\* what a call of ReadFileObject gives its caller: the entries and the
\* recovered entries of the object, and the exception raised
Result(entries, recovered_entries, error) ==
  [entries |-> entries, recovered_entries |-> recovered_entries,
   error |-> error]

\* CustomDestinationsFile.__init__, and the file given to ReadFileObject
CInit ==
  /\ cd_file \in CustomFiles
  /\ cd_pc = "start"
  /\ cd_error = "none"
  /\ cd_offset = 0
  /\ cd_file_offset = 0
  /\ cd_remaining_file_size = 0
  /\ cd_first_guid_checked = FALSE
  /\ cd_entries = <<>>
  /\ cd_recovered_entries = <<>>
  /\ cd_run = 1
  /\ cd_first_result = Result(<<>>, <<>>, "none")

\* no custom Jump List file is being decoded
CIdle ==
  /\ cd_file = <<>>
  /\ cd_pc = "idle"
  /\ cd_error = "none"
  /\ cd_offset = 0
  /\ cd_file_offset = 0
  /\ cd_remaining_file_size = 0
  /\ cd_first_guid_checked = FALSE
  /\ cd_entries = <<>>
  /\ cd_recovered_entries = <<>>
  /\ cd_run = 1
  /\ cd_first_result = Result(<<>>, <<>>, "none")

\* an exception leaves ReadFileObject with the cursor at offset
CRaise(error, offset) ==
  /\ cd_pc' = "failed"
  /\ cd_error' = error
  /\ cd_offset' = offset

\* the fields of file_header the decoder looks at
FileHeader(data) ==
  [unknown1 |-> Uint32LE(SubSeq(data, 1, 4)),
   header_values_type |-> Uint32LE(SubSeq(data, 13, 16))]

\* _ReadFileHeader: the header is read and checked, then the header value is
\* read.  The map of header value type 0 has no fixed size, GetByteSize() is
\* None and read(None) takes the rest of the file: either mapping it fails,
\* or the cursor is left at the end of the file.
CReadFileHeader ==
  /\ CFrame
  /\ CRunFrame
  /\ cd_pc = "start"
  /\ LET header == ReadStructure(cd_file, cd_offset, FILE_HEADER_SIZE)
         file_header == FileHeader(header.data)
         value == ReadStructure(cd_file, header.offset,
                                HEADER_VALUE_TYPE_1_OR_2_SIZE)
     IN  IF header.err
           THEN CRaise("ParseError", header.offset)
         ELSE IF ~HeaderSupported(file_header)
           THEN CRaise("ParseError", header.offset)
         ELSE IF file_header.header_values_type = U32(0)
           THEN \/ CRaise("ParseError", Len(cd_file))
                \/ /\ cd_pc' = "lnk_files"
                   /\ cd_offset' = Len(cd_file)
                   /\ UNCHANGED cd_error
         ELSE IF value.err
           THEN CRaise("ParseError", value.offset)
         ELSE /\ cd_pc' = "lnk_files"
              /\ cd_offset' = value.offset
              /\ UNCHANGED cd_error
  /\ UNCHANGED <<cd_file, cd_file_offset, cd_remaining_file_size,
                 cd_first_guid_checked, cd_entries>>

\* _ReadLNKFiles, before its loop
CReadLNKFiles ==
  /\ CFrame
  /\ CRunFrame
  /\ cd_pc = "lnk_files"
  /\ cd_file_offset' = cd_offset
  /\ cd_remaining_file_size' = Len(cd_file) - cd_offset
  /\ cd_first_guid_checked' = FALSE
  /\ cd_pc' = "scan"
  /\ UNCHANGED <<cd_file, cd_error, cd_offset, cd_entries>>

\* _ReadLNKFiles: the loop ends because at most 4 bytes remain
CScanEnd ==
  /\ CFrame
  /\ CRunFrame
  /\ cd_pc = "scan"
  /\ ~(cd_remaining_file_size > 4)
  /\ cd_pc' = "footer"
  /\ UNCHANGED <<cd_file, cd_error, cd_offset, cd_file_offset,
                 cd_remaining_file_size, cd_first_guid_checked, cd_entries>>

\* file_object.seek(offset, os.SEEK_CUR) that leaves the cursor where it is
SeekCurIgnored(cursor, offset) == cursor

\* file_object.seek(offset, os.SEEK_CUR): the cursor after the seek
SeekCur(cursor, offset) == cursor + offset

\* file_offset += size that leaves file_offset as it is
FileOffsetAfterKept(file_offset, size) == file_offset

\* _ReadLNKFiles: file_offset += size
FileOffsetAfter(file_offset, size) == file_offset + size

\* _ReadLNKFiles: one pass of the loop.  The entry header is read; if it
\* cannot be read, or is not the LNK class identifier, the loop is left (or
\* ParseError is raised); otherwise the shortcut after it is read from a data
\* range and added to the entries.
CScanEntry ==
  /\ CFrame
  /\ CRunFrame
  /\ cd_pc = "scan"
  /\ cd_remaining_file_size > 4
  /\ LET entry_header ==
           ReadStructure(cd_file, cd_file_offset, ENTRY_HEADER_SIZE)
         file_footer ==
           ReadStructure(cd_file, SeekCur(entry_header.offset, -16),
                         FILE_FOOTER_SIZE)
         file_offset == FileOffsetAfter(cd_file_offset, 16)
         remaining_file_size == cd_remaining_file_size - 16
         lnk_file == ReadLNKFile(
           DataRange(cd_file, file_offset, remaining_file_size))
     IN  IF entry_header.err
           THEN /\ IF MarkerFailureFatal(cd_first_guid_checked)
                     THEN CRaise("ParseError", entry_header.offset)
                     ELSE /\ cd_pc' = "footer"
                          /\ cd_offset' = entry_header.offset
                          /\ UNCHANGED cd_error
                /\ UNCHANGED <<cd_file_offset, cd_remaining_file_size,
                               cd_first_guid_checked, cd_entries>>
         ELSE IF entry_header.data # LNK_GUID
           THEN /\ IF MarkerFailureFatal(cd_first_guid_checked)
                     THEN CRaise("ParseError", entry_header.offset)
                   ELSE IF \/ file_footer.err
                           \/ ~FooterValid(Uint32LE(file_footer.data))
                     THEN CRaise("ParseError", file_footer.offset)
                     ELSE /\ cd_pc' = "footer"
                          /\ cd_offset' = SeekCur(file_footer.offset, -4)
                          /\ UNCHANGED cd_error
                /\ UNCHANGED <<cd_file_offset, cd_remaining_file_size,
                               cd_first_guid_checked, cd_entries>>
         ELSE IF lnk_file.err
           THEN /\ CRaise(lnk_file.error, entry_header.offset)
                /\ cd_first_guid_checked' = TRUE
                /\ cd_file_offset' = file_offset
                /\ cd_remaining_file_size' = remaining_file_size
                /\ UNCHANGED cd_entries
         ELSE /\ cd_first_guid_checked' = TRUE
              /\ cd_entries' = Append(cd_entries, lnk_file.entry)
              /\ cd_file_offset' =
                   FileOffsetAfter(file_offset, lnk_file.entry.data_size)
              /\ cd_remaining_file_size' =
                   remaining_file_size - lnk_file.entry.data_size
              /\ cd_offset' =
                   FileOffsetAfter(file_offset, lnk_file.entry.data_size)
              /\ UNCHANGED <<cd_pc, cd_error>>
  /\ UNCHANGED cd_file

\* ReadFileObject after _ReadLNKFiles: trailing data is looked for, then
\* _ReadFileFooter reads the footer at the cursor and checks its signature
CReadFileFooter ==
  /\ CFrame
  /\ CRunFrame
  /\ cd_pc = "footer"
  /\ LET file_footer == ReadStructure(cd_file, cd_offset, FILE_FOOTER_SIZE)
     IN  IF file_footer.err \/ ~FooterValid(Uint32LE(file_footer.data))
           THEN CRaise("ParseError", file_footer.offset)
           ELSE /\ cd_pc' = "done"
                /\ cd_offset' = file_footer.offset
                /\ UNCHANGED cd_error
  /\ UNCHANGED <<cd_file, cd_file_offset, cd_remaining_file_size,
                 cd_first_guid_checked, cd_entries>>

CNext ==
  \/ CReadFileHeader
  \/ CReadLNKFiles
  \/ CScanEntry
  \/ CScanEnd
  \/ CReadFileFooter

\* ReadFileObject is called once more on the same object, with a file object
\* at the start of the same bytes: nothing of the object is initialized again
CReadFileObjectAgain ==
  /\ CFrame
  /\ cd_pc \in {"done", "failed"}
  /\ cd_run < MaxRuns
  /\ cd_run' = cd_run + 1
  /\ cd_first_result' =
       IF cd_run = 1
         THEN Result(cd_entries, cd_recovered_entries, cd_error)
         ELSE cd_first_result
  /\ cd_pc' = "start"
  /\ cd_error' = "none"
  /\ cd_offset' = 0
  /\ cd_file_offset' = 0
  /\ cd_remaining_file_size' = 0
  /\ cd_first_guid_checked' = FALSE
  /\ UNCHANGED <<cd_file, cd_entries, cd_recovered_entries>>

CTwiceNext ==
  \/ CNext
  \/ CReadFileObjectAgain

-----------------------------------------------------------------------------
(* jump_list.py: AutomaticDestinationsFile *)

\* size of dest_list_header: 3 x uint32, float32, 4 x uint32
DEST_LIST_HEADER_SIZE == 32
\* size of dest_list_entry_v1 without its path: uint64, 4 x uuid, 16
\* characters, 2 x uint32, float32, uint64, int32, uint16
DEST_LIST_ENTRY_V1_SIZE == 114
\* size of dest_list_entry_v3 without its path: the members of v1 and
\* int32, uint32, uint64 before path_size, uint32 after the path
DEST_LIST_ENTRY_V3_SIZE == 134

\* the name of the DestList stream
DestListName == "DestList"

\* the names of the shortcut streams of a container, in the order they have
StreamNames == <<"1", "2", "3", "4", "5", "6">>

\* A stream of the container: its name and, for a shortcut stream, its data.
Stream(name, data) == [name |-> name, data |-> data]

\* a shortcut stream: 5 bytes of shortcut the decoder accepts and 3 more
\* bytes, or data the decoder rejects
ShortcutStreams(name) ==
  { Stream(name, ShortcutBytes(5) \o <<9, 9, 9>>),
    Stream(name, <<0, 7, 7, 7>>) }

\* The DestList stream: its size, its format_version and the path_size of
\* each of its entries.
DestList(size, format_version, path_sizes) ==
  [name |-> DestListName, size |-> size, format_version |-> format_version,
   path_sizes |-> path_sizes]

\* _ReadDestListEntry, a path counted as path_size bytes instead of path_size
\* characters of 2 bytes
DestListEntrySizePathBytes(format_version, path_size) ==
  IF format_version = 1
    THEN DEST_LIST_ENTRY_V1_SIZE + path_size
    ELSE DEST_LIST_ENTRY_V3_SIZE + path_size

\* _ReadDestListEntry: the size of an entry, something only versions 1, 3
\* and 4 have
DestListEntrySize(format_version, path_size) ==
  IF format_version = 1
    THEN DEST_LIST_ENTRY_V1_SIZE + 2 * path_size
    ELSE DEST_LIST_ENTRY_V3_SIZE + 2 * path_size

\* the offset of entry i of a DestList stream
RECURSIVE DestListEntryOffset(_, _, _)
DestListEntryOffset(format_version, path_sizes, i) ==
  IF i <= 1 THEN DEST_LIST_HEADER_SIZE
  ELSE DestListEntryOffset(format_version, path_sizes, i - 1)
         + DestListEntrySize(format_version, path_sizes[i - 1])

PathSizeSeqs == UNION { [1..n -> {0, 3}] : n \in 0..MaxDestListEntries }

\* the DestList streams: whole ones, ones with the last 4 bytes missing, and
\* one too short for the header
DestLists ==
  { DestList(DestListEntryOffset(v, p, Len(p) + 1) - cut, v, p) :
      v \in 0..5, p \in PathSizeSeqs, cut \in {0, 4} }
  \cup { DestList(10, 1, <<>>) }

\* the shortcut streams of a container with n of them
StreamSeqs(n) ==
  { s \in [1..n -> UNION { ShortcutStreams(StreamNames[i]) : i \in 1..n }] :
      \A i \in 1..n : s[i].name = StreamNames[i] }

\* a sequence with x put in before position i
InsertAt(s, i, x) == SubSeq(s, 1, i - 1) \o <<x>> \o SubSeq(s, i, Len(s))

\* The containers: an unreadable one, ones without DestList, and ones with
\* DestList at any place among the shortcut streams.
Containers ==
  { [readable |-> FALSE, sub_items |-> <<>>] }
  \cup { [readable |-> TRUE, sub_items |-> s] :
           s \in UNION { StreamSeqs(n) : n \in 0..MaxStreams } }
  \cup { [readable |-> TRUE, sub_items |-> InsertAt(s[1], s[3], s[2])] :
           s \in UNION { StreamSeqs(n) \X DestLists \X (1..(n + 1)) :
                           n \in 0..MaxStreams } }

\* olecf_file.root_item.get_sub_item_by_name('DestList'): the position of the
\* stream, 0 when there is none
DestListItem(file) ==
  IF \E i \in 1..Len(file.sub_items) : file.sub_items[i].name = DestListName
    THEN CHOOSE i \in 1..Len(file.sub_items) :
           file.sub_items[i].name = DestListName
    ELSE 0

NoError == [type |-> "none", stream |-> ""]
Error(type) == [type |-> type, stream |-> ""]

\* AutomaticDestinationsFile.__init__, and the file given to ReadFileObject
AInit ==
  /\ ad_file \in Containers
  /\ ad_pc = "start"
  /\ ad_error = NoError
  /\ ad_open = FALSE
  /\ ad_closes = 0
  /\ ad_format_version = NoneVal
  /\ ad_stream_offset = 0
  /\ ad_item = 0
  /\ ad_entries = <<>>

\* no automatic Jump List file is being decoded
AIdle ==
  /\ ad_file = [readable |-> FALSE, sub_items |-> <<>>]
  /\ ad_pc = "idle"
  /\ ad_error = NoError
  /\ ad_open = FALSE
  /\ ad_closes = 0
  /\ ad_format_version = NoneVal
  /\ ad_stream_offset = 0
  /\ ad_item = 0
  /\ ad_entries = <<>>

\* ReadFileObject without the finally clause: an exception leaves
\* ReadFileObject with the container open
ARaiseUnclosed(error) ==
  /\ ad_pc' = "failed"
  /\ ad_error' = error
  /\ UNCHANGED <<ad_open, ad_closes>>

\* ReadFileObject: an exception inside the try statement closes the container
\* in the finally clause and leaves ReadFileObject
ARaise(error) ==
  /\ ad_pc' = "failed"
  /\ ad_error' = error
  /\ ad_open' = FALSE
  /\ ad_closes' = ad_closes + 1

\* ReadFileObject: the container is opened
AOpen ==
  /\ AFrame
  /\ ad_pc = "start"
  /\ IF ad_file.readable
       THEN /\ ad_pc' = "dest_list"
            /\ ad_open' = TRUE
            /\ UNCHANGED ad_error
       ELSE /\ ad_pc' = "failed"
            /\ ad_error' = Error("IOError")
            /\ UNCHANGED ad_open
  /\ UNCHANGED <<ad_file, ad_closes, ad_format_version, ad_stream_offset,
                 ad_item, ad_entries>>

\* _ReadDestListHeader, a check that takes every version from 1 to 4
VersionSupportedRange(format_version) == format_version \in 1..4

\* _ReadDestListHeader: format_version in (1, 3, 4)
VersionSupported(format_version) == format_version \in {1, 3, 4}

\* _ReadDestList, _ReadDestListHeader: the DestList stream is looked up, its
\* header is read and the format version is checked and recorded
AReadDestListHeader ==
  /\ AFrame
  /\ ad_pc = "dest_list"
  /\ LET item == DestListItem(ad_file)
         olecf_item == ad_file.sub_items[item]
     IN  IF item = 0
           THEN /\ ARaise(Error("AttributeError"))
                /\ UNCHANGED <<ad_format_version, ad_stream_offset>>
         ELSE IF olecf_item.size < DEST_LIST_HEADER_SIZE
           THEN /\ ARaise(Error("ParseError"))
                /\ UNCHANGED <<ad_format_version, ad_stream_offset>>
         ELSE IF ~VersionSupported(olecf_item.format_version)
           THEN /\ ARaise(Error("ParseError"))
                /\ UNCHANGED <<ad_format_version, ad_stream_offset>>
         ELSE /\ ad_format_version' = Some(olecf_item.format_version)
              /\ ad_stream_offset' = DEST_LIST_HEADER_SIZE
              /\ ad_pc' = "dest_list_entries"
              /\ UNCHANGED <<ad_error, ad_open, ad_closes>>
  /\ UNCHANGED <<ad_file, ad_item, ad_entries>>

\* _ReadDestList, a loop over the entries that reads none of them
DestListEntriesLeftNone(stream_offset, stream_size) == FALSE

\* _ReadDestList: while stream_offset < stream_size
DestListEntriesLeft(stream_offset, stream_size) == stream_offset < stream_size

\* the path_size of the entry at stream_offset of a DestList stream
PathSizeAt(olecf_item, stream_offset) ==
  LET i == CHOOSE i \in 1..Len(olecf_item.path_sizes) :
             DestListEntryOffset(olecf_item.format_version,
                                 olecf_item.path_sizes, i) = stream_offset
  IN  olecf_item.path_sizes[i]

\* _ReadDestList, _ReadDestListEntry: one pass of the loop over the entries
AReadDestListEntry ==
  /\ AFrame
  /\ ad_pc = "dest_list_entries"
  /\ LET olecf_item == ad_file.sub_items[DestListItem(ad_file)]
         entry_size == DestListEntrySize(
           ad_format_version.v, PathSizeAt(olecf_item, ad_stream_offset))
     IN  /\ DestListEntriesLeft(ad_stream_offset, olecf_item.size)
         /\ IF ad_stream_offset + entry_size > olecf_item.size
              THEN /\ ARaise(Error("ParseError"))
                   /\ UNCHANGED ad_stream_offset
              ELSE /\ ad_stream_offset' = ad_stream_offset + entry_size
                   /\ UNCHANGED <<ad_pc, ad_error, ad_open, ad_closes>>
  /\ UNCHANGED <<ad_file, ad_format_version, ad_item, ad_entries>>

\* _ReadDestList returns, _ReadLNKFiles starts its loop over the sub items
AReadLNKFiles ==
  /\ AFrame
  /\ ad_pc = "dest_list_entries"
  /\ ~DestListEntriesLeft(ad_stream_offset,
                          ad_file.sub_items[DestListItem(ad_file)].size)
  /\ ad_pc' = "lnk_files"
  /\ ad_item' = 1
  /\ UNCHANGED <<ad_file, ad_error, ad_open, ad_closes, ad_format_version,
                 ad_stream_offset, ad_entries>>

\* _ReadLNKFiles: the DestList stream is passed over
ASkipDestList ==
  /\ AFrame
  /\ ad_pc = "lnk_files"
  /\ ad_item <= Len(ad_file.sub_items)
  /\ ad_file.sub_items[ad_item].name = DestListName
  /\ ad_item' = ad_item + 1
  /\ UNCHANGED <<ad_file, ad_pc, ad_error, ad_open, ad_closes,
                 ad_format_version, ad_stream_offset, ad_entries>>

\* AutomaticDestinationsFile._ReadLNKFile, the exception it raises leaves
\* the IOError of the decoder as it is
StreamErrorUnwrapped(name) == [type |-> "IOError", stream |-> ""]

\* AutomaticDestinationsFile._ReadLNKFile: the IOError of the decoder is
\* raised as a ParseError that names the stream
StreamError(name) == [type |-> "ParseError", stream |-> name]

\* _ReadLNKFiles, _ReadLNKFile: the shortcut of a stream is read and added to
\* the entries
AReadLNKFile ==
  /\ AFrame
  /\ ad_pc = "lnk_files"
  /\ ad_item <= Len(ad_file.sub_items)
  /\ ad_file.sub_items[ad_item].name # DestListName
  /\ LET olecf_item == ad_file.sub_items[ad_item]
         opened == LNKFileEntryOpen(olecf_item.data)
     IN  IF opened.err
           THEN /\ ARaise(StreamError(olecf_item.name))
                /\ UNCHANGED <<ad_item, ad_entries>>
           ELSE /\ ad_entries' = Append(ad_entries,
                     LNKFileEntry(olecf_item.name, opened.data_size))
                /\ ad_item' = ad_item + 1
                /\ UNCHANGED <<ad_pc, ad_error, ad_open, ad_closes>>
  /\ UNCHANGED <<ad_file, ad_format_version, ad_stream_offset>>

\* ReadFileObject: _ReadLNKFiles returns, the finally clause closes the
\* container
AClose ==
  /\ AFrame
  /\ ad_pc = "lnk_files"
  /\ ad_item > Len(ad_file.sub_items)
  /\ ad_pc' = "done"
  /\ ad_open' = FALSE
  /\ ad_closes' = ad_closes + 1
  /\ UNCHANGED <<ad_file, ad_error, ad_format_version, ad_stream_offset,
                 ad_item, ad_entries>>

ANext ==
  \/ AOpen
  \/ AReadDestListHeader
  \/ AReadDestListEntry
  \/ AReadLNKFiles
  \/ ASkipDestList
  \/ AReadLNKFile
  \/ AClose

-----------------------------------------------------------------------------
(* Specifications *)

KeychainInit == KInit /\ CIdle /\ AIdle /\ AVIdle
SpecKeychain == KeychainInit /\ [][KNext]_vars

CustomInit == CInit /\ KIdle /\ AIdle /\ AVIdle
SpecCustom == CustomInit /\ [][CNext]_vars
SpecCustomTwice == CustomInit /\ [][CTwiceNext]_vars

\* ReadFileObject runs until it returns or raises
SpecCustomFair == CustomInit /\ [][CNext]_vars /\ WF_vars(CNext)

AutomaticInit == AInit /\ KIdle /\ CIdle /\ AVIdle
SpecAuto == AutomaticInit /\ [][ANext]_vars

AttributeValueInit == AVInit /\ KIdle /\ CIdle /\ AIdle
SpecAttributeValue == AttributeValueInit /\ [][AVNext]_vars


-----------------------------------------------------------------------------
(* Properties of the keychain decoder *)

\* a step of _ReadRecordSchemaAttributes
AttributesStep ==
  /\ kc_pc = "record"
  /\ kc_table_header.record_type = RECORD_TYPE_CSSM_DL_DB_SCHEMA_ATTRIBUTES
  /\ kc_record'.kind = "attributes"

\* a step of _ReadRecordSchemaIndexes
IndexesStep ==
  /\ kc_pc = "record"
  /\ kc_table_header.record_type = RECORD_TYPE_CSSM_DL_DB_SCHEMA_INDEXES
  /\ kc_record'.kind = "indexes"

\* the relation identifier read by the step has no table in the registry
\* the step started with
NoTableForRecord ==
  \/ kc_record'.relation_identifier.isNone
  \/ kc_record'.relation_identifier.v \notin TableKeys(kc_tables)

\* C1: a schema attributes record whose relation identifier has no schema
\* information record processed before it makes the decode fail with
\* ParseError, and leaves the table registry as it was.
C1_MissingTableIsParseError ==
  [][ (AttributesStep /\ NoTableForRecord)
        => /\ kc_pc' = "failed"
           /\ kc_error' = "ParseError"
           /\ kc_tables' = kc_tables ]_vars

\* C1, the part the code keeps: such a record always makes the decode fail
\* and leaves the table registry as it was.
C1_MissingTableFailsUnchanged ==
  [][ (AttributesStep /\ NoTableForRecord)
        => /\ kc_pc' = "failed"
           /\ kc_error' # "none"
           /\ kc_tables' = kc_tables ]_vars

\* the table at position i of the registry has more columns after the step
\* than before it
ColumnsGrew(i) ==
  IF i <= Len(kc_tables)
    THEN Len(kc_tables'[i].columns) > Len(kc_tables[i].columns)
    ELSE kc_tables'[i].columns # <<>>

\* C2: every schema attributes record and every schema indexes record that
\* is accepted names a relation whose schema information record was
\* processed strictly earlier, and a column is only ever appended to a table
\* that was registered before the append.
C2_SchemaInformationFirst ==
  [][ /\ ((AttributesStep \/ IndexesStep) /\ kc_record'.accepted)
           => ~NoTableForRecord
      /\ \A i \in 1..Len(kc_tables') :
           ColumnsGrew(i) =>
             /\ i <= Len(kc_tables)
             /\ kc_tables'[i].relation_identifier =
                  kc_tables[i].relation_identifier
             /\ AttributesStep ]_vars

\* C2 witness: a decode has finished without error after a column was
\* appended by an accepted schema attributes record.
C2_Witness ==
  /\ kc_pc = "done"
  /\ kc_record.kind = "attributes"
  /\ kc_record.accepted
  /\ \E i \in 1..Len(kc_tables) : Len(kc_tables[i].columns) > 1

\* a step of _ReadRecordSchemaInformation on a record that can be read
InformationStep ==
  /\ kc_pc = "record"
  /\ kc_table_header.record_type = RECORD_TYPE_CSSM_DL_DB_SCHEMA_INFO
  /\ kc_record'.kind = "information"
  /\ kc_input'.readable

\* the step fails with ParseError and leaves the registry as it was
FailsWithParseError ==
  /\ kc_pc' = "failed"
  /\ kc_error' = "ParseError"
  /\ kc_tables' = kc_tables

\* after the step the registry has, under the relation_identifier of the
\* record, a table with the relation_name of the record and no columns
TableRegistered ==
  /\ kc_pc' # "failed"
  /\ \E i \in 1..Len(kc_tables') :
       kc_tables'[i] = [relation_identifier |-> kc_input'.relation_identifier,
                        relation_name |-> kc_input'.relation_name,
                        columns |-> <<>>]

\* C15: a schema information record whose attribute value offsets are not
\* (0x21, 0x25) makes the decode fail with ParseError and registers no
\* table; any other schema information record registers, under its
\* relation_identifier, a table with its relation_identifier, its
\* relation_name and no columns.
C15_SchemaInformationRegisters ==
  [][InformationStep =>
       IF kc_input'.attribute_value_offsets # <<33, 37>>
         THEN FailsWithParseError
         ELSE TableRegistered]_vars

\* C15, the part the code keeps: the claim for the records whose
\* relation_name is ASCII.
C15_AsciiNameRegisters ==
  [][InformationStep /\ IsAscii(kc_input'.relation_name) =>
       IF kc_input'.attribute_value_offsets # <<33, 37>>
         THEN FailsWithParseError
         ELSE TableRegistered]_vars

\* C16: a schema indexes record makes the decode fail with ParseError if its
\* attribute value offsets are not (0x2d, 0x31, 0x35, 0x39, 0x3d), and also
\* if its relation_identifier has no table in the registry; whether it fails
\* or not, the step leaves the registry and the columns of every table as
\* they were.
C16_SchemaIndexesChecks ==
  [][IndexesStep =>
       /\ kc_tables' = kc_tables
       /\ kc_input'.readable =>
            /\ kc_input'.attribute_value_offsets # <<45, 49, 53, 57, 61>>
                 => kc_pc' = "failed" /\ kc_error' = "ParseError"
            /\ kc_input'.relation_identifier \notin TableKeys(kc_tables)
                 => kc_pc' = "failed" /\ kc_error' = "ParseError"]_vars

\* a schema indexes record with other offsets has ended a decode that had
\* registered a table with a column
C16_Witness ==
  /\ kc_pc = "failed"
  /\ kc_error = "ParseError"
  /\ kc_record.kind = "indexes"
  /\ kc_input.readable
  /\ kc_input.attribute_value_offsets = <<45, 49, 53, 57, 0>>
  /\ \E i \in 1..Len(kc_tables) : kc_tables[i].columns # <<>>

\* the table at position i of the registry is after the step the table it
\* was before, under the same relation_identifier, and its columns before the
\* step are a prefix of its columns after the step
TableKept(i) ==
  /\ i <= Len(kc_tables')
  /\ kc_tables'[i].relation_identifier = kc_tables[i].relation_identifier
  /\ kc_tables'[i].relation_name = kc_tables[i].relation_name
  /\ Len(kc_tables'[i].columns) >= Len(kc_tables[i].columns)
  /\ SubSeq(kc_tables'[i].columns, 1, Len(kc_tables[i].columns)) =
       kc_tables[i].columns

\* C17: the registry is append-only within one decode: a relation_identifier
\* that has a table stays mapped to it and the columns of the table only grow
\* by appends, also when a later schema information record has a
\* relation_identifier that is registered already.
C17_RegistryAppendOnly ==
  [][\A i \in 1..Len(kc_tables) : TableKept(i)]_vars

\* C17, the part the code keeps: every step other than the one of a schema
\* information record keeps the tables and only appends columns.
C17_AppendOnlyButInformation ==
  [][kc_record'.kind # "information" =>
       \A i \in 1..Len(kc_tables) : TableKept(i)]_vars

-----------------------------------------------------------------------------
(* Properties of the custom Jump List decoder *)

\* the loop of _ReadLNKFiles is about to read a marker at cd_file_offset
ScanningEntry == cd_pc = "scan" /\ cd_remaining_file_size > 4

\* fewer than 16 bytes are left for the marker at cd_file_offset
MarkerUndecodable == cd_file_offset + 16 > Len(cd_file)

\* the 16 bytes at cd_file_offset are the shortcut class identifier
MarkerMatches ==
  /\ ~MarkerUndecodable
  /\ SubSeq(cd_file, cd_file_offset + 1, cd_file_offset + 16) = LNK_GUID

\* the shortcut decoder rejects the data after the marker at cd_file_offset
ShortcutRejected ==
  LNKFileEntryOpen(SubSeq(cd_file, cd_file_offset + 17, Len(cd_file))).err

\* the 4 bytes at the cursor are the footer signature 0xbabffbab
FooterAtCursorValid ==
  /\ cd_offset + 4 <= Len(cd_file)
  /\ SubSeq(cd_file, cd_offset + 1, cd_offset + 4) = <<171, 251, 191, 186>>

GoodSizeSeqs == UNION { [1..n -> ShortcutSizes \ {0}] : n \in 0..MaxEntries }

\* the decode of a file of N accepted entries and the footer has finished
\* without error with exactly these N entries, in file order
YieldsEntries(header_values_type, sizes) ==
  (cd_file = CustomFile(2, header_values_type, sizes, FooterBytes)
     /\ cd_pc \in {"done", "failed"})
    => /\ cd_pc = "done"
       /\ cd_error = "none"
       /\ Len(cd_entries) = Len(sizes)
       /\ \A i \in 1..Len(sizes) : cd_entries[i].data_size = sizes[i]
       /\ cd_offset = Len(cd_file)

\* C4: a file made of a valid header and header value, N entries of a
\* matching marker and an accepted shortcut, and the footer signature, is
\* decoded without error to exactly N entries, in file order, with the
\* footer validated.
C4_WellFormedFileYieldsEntries ==
  \A header_values_type \in 0..2 : \A sizes \in GoodSizeSeqs :
    YieldsEntries(header_values_type, sizes)

\* C4 for header value types 1 and 2 only, which the code does decode.
C4_Type1Or2FileYieldsEntries ==
  \A header_values_type \in 1..2 : \A sizes \in GoodSizeSeqs :
    YieldsEntries(header_values_type, sizes)

\* C5: ReadFileObject finishes without error only if the footer at the cursor
\* reached after the entry scan is 0xbabffbab; with any other footer, or
\* none, it fails with ParseError.
C5_FooterDecides ==
  [][ /\ cd_pc = "footer"
           => IF FooterAtCursorValid
                THEN cd_pc' = "done" /\ cd_error' = "none"
                ELSE cd_pc' = "failed" /\ cd_error' = "ParseError"
      /\ cd_pc' = "done" => (cd_pc = "footer" /\ FooterAtCursorValid) ]_vars

\* C5 witness: after a scan that collected entries and ended with 4 bytes
\* left, the decode failed on these 4 bytes.
C5_Witness ==
  /\ cd_pc = "failed"
  /\ cd_error = "ParseError"
  /\ cd_entries # <<>>
  /\ cd_remaining_file_size = 4
  /\ cd_offset = Len(cd_file)
  /\ cd_file_offset = Len(cd_file) - 4

HeaderUnsupported ==
  /\ Len(cd_file) >= 16
  /\ \/ SubSeq(cd_file, 1, 4) # <<2, 0, 0, 0>>
     \/ SubSeq(cd_file, 13, 16) \notin
          { <<0, 0, 0, 0>>, <<1, 0, 0, 0>>, <<2, 0, 0, 0>> }

\* C8: a file header whose first field is not 2 or whose header value type
\* is above 2 fails with UnsupportedVersionError; no header value is read, no
\* entry is collected and no footer is read.
C8_HeaderUnsupportedVersionError ==
  (HeaderUnsupported /\ cd_pc # "start")
    => /\ cd_pc = "failed"
       /\ cd_error = "UnsupportedVersionError"
       /\ cd_offset = 16
       /\ cd_entries = <<>>

\* C8 as amended: a file header whose first field is not 2 or whose header
\* value type is above 2 fails with ParseError; no header value is read, no
\* entry is collected and no footer is read.
C8_HeaderUnsupportedParseError ==
  (HeaderUnsupported /\ cd_pc # "start")
    => /\ cd_pc = "failed"
       /\ cd_error = "ParseError"
       /\ cd_offset = 16
       /\ cd_entries = <<>>

\* C8 witness: the decode failed on a header with first field 2 and header
\* value type 3.
C8_Witness ==
  /\ cd_pc = "failed"
  /\ Len(cd_file) >= 16
  /\ SubSeq(cd_file, 1, 4) = <<2, 0, 0, 0>>
  /\ SubSeq(cd_file, 13, 16) = <<3, 0, 0, 0>>


-----------------------------------------------------------------------------
(* Properties of the automatic Jump List decoder *)

\* the DestList header of the container is about to be decoded and all of
\* its bytes are there
DestListHeaderReadable ==
  /\ ad_pc = "dest_list"
  /\ DestListItem(ad_file) # 0
  /\ ad_file.sub_items[DestListItem(ad_file)].size >= DEST_LIST_HEADER_SIZE

\* the format_version of the DestList header of the container
HeaderFormatVersion == ad_file.sub_items[DestListItem(ad_file)].format_version

\* a DestList header of version 1, 3 or 4 is decoded and its version recorded
HeaderAccepted ==
  /\ ad_pc' = "dest_list_entries"
  /\ ad_error' = NoError
  /\ ad_format_version' = Some(HeaderFormatVersion)

\* the decoding of the DestList header fails with an error of the given type
HeaderRejected(type) ==
  /\ ad_pc' = "failed"
  /\ ad_error'.type = type
  /\ ad_format_version' = ad_format_version

\* C9 as stated: decoding a DestList header whose format_version is not 1, 3
\* or 4 fails with UnsupportedVersionError, and decoding one whose
\* format_version is 1, 3 or 4 succeeds and records the version.
C9_VersionUnsupportedVersionError ==
  [][DestListHeaderReadable =>
       IF HeaderFormatVersion \in {1, 3, 4}
         THEN HeaderAccepted
         ELSE HeaderRejected("UnsupportedVersionError")]_vars

\* C9 amended: decoding a DestList header whose format_version is not 1, 3
\* or 4 fails with ParseError and records no version, and decoding one whose
\* format_version is 1, 3 or 4 succeeds and records the version.
C9_VersionParseError ==
  [][DestListHeaderReadable =>
       IF HeaderFormatVersion \in {1, 3, 4}
         THEN HeaderAccepted
         ELSE HeaderRejected("ParseError")]_vars

\* a header of an unsupported version has been rejected, with other streams
\* in the container
C9_Witness ==
  /\ ad_pc = "failed"
  /\ ad_error.type = "ParseError"
  /\ DestListItem(ad_file) # 0
  /\ HeaderFormatVersion = 2
  /\ ad_file.sub_items[DestListItem(ad_file)].size >= DEST_LIST_HEADER_SIZE
  /\ ad_format_version = NoneVal
  /\ Len(ad_file.sub_items) > 1

\* the entries of the shortcut streams among the given streams which the
\* shortcut decoder accepts, in the order of the streams
RECURSIVE DecodedEntries(_)
DecodedEntries(sub_items) ==
  IF sub_items = <<>> THEN <<>>
  ELSE LET olecf_item == sub_items[Len(sub_items)]
           before == DecodedEntries(SubSeq(sub_items, 1, Len(sub_items) - 1))
       IN  IF olecf_item.name = DestListName THEN before
           ELSE IF LNKFileEntryOpen(olecf_item.data).err THEN before
           ELSE Append(before, LNKFileEntry(
                  olecf_item.name, LNKFileEntryOpen(olecf_item.data).data_size))

\* the read has ended at a stream whose shortcut the decoder rejected
StreamRejected ==
  /\ ad_pc = "failed"
  /\ ad_item >= 1
  /\ ad_item <= Len(ad_file.sub_items)

ShortcutStreamsOf(file) ==
  SelectSeq(file.sub_items, LAMBDA olecf_item : olecf_item.name # DestListName)

\* C11: after a read in which every shortcut decodes the entries are one
\* entry per stream other than DestList, in container order; the identifier
\* of an entry is the name of its stream and its data_size is the number of
\* bytes the shortcut decoder consumed, not the size of the stream.
C11_OneEntryPerStream ==
  ad_pc = "done" =>
    LET streams == ShortcutStreamsOf(ad_file)
    IN  /\ Len(ad_entries) = Len(streams)
        /\ \A i \in 1..Len(streams) :
             /\ ad_entries[i].identifier = streams[i].name
             /\ ad_entries[i].identifier # DestListName
             /\ ad_entries[i].data_size = streams[i].data[1]
             /\ ad_entries[i].data_size < Len(streams[i].data)

\* a read has ended well on a container with DestList between two shortcut
\* streams
C11_Witness ==
  /\ ad_pc = "done"
  /\ Len(ad_file.sub_items) = 3
  /\ ad_file.sub_items[2].name = DestListName
  /\ Len(ad_entries) = 2

\* the read is at DestList or before it
BeforeShortcuts == ad_pc \in {"start", "dest_list", "dest_list_entries"}

\* the read has come to the shortcut streams
AtShortcuts == ad_pc \in {"lnk_files", "done"} \/ StreamRejected

\* the read has ended at a failure in DestList
DestListFailed == ad_pc = "failed" /\ ad_item = 0

\* C12: DestList is read completely, its header and then its entries up to
\* the size of the stream, before any shortcut stream is decoded, and a
\* failure in the header or in an entry of DestList ends the whole read with
\* no shortcut stream decoded and no entries.
C12_DestListBeforeShortcuts ==
  /\ BeforeShortcuts \/ DestListFailed => ad_entries = <<>> /\ ad_item = 0
  /\ AtShortcuts =>
       /\ DestListItem(ad_file) # 0
       /\ ad_format_version # NoneVal
       /\ ad_stream_offset >= DEST_LIST_HEADER_SIZE
       /\ ad_stream_offset >= ad_file.sub_items[DestListItem(ad_file)].size

\* a DestList entry cut short has ended the read of a container that has a
\* shortcut stream which decodes
C12_Witness ==
  /\ DestListFailed
  /\ ad_error.type = "ParseError"
  /\ ad_format_version # NoneVal
  /\ ad_stream_offset > DEST_LIST_HEADER_SIZE
  /\ \E i \in 1..Len(ad_file.sub_items) :
       /\ ad_file.sub_items[i].name # DestListName
       /\ ~LNKFileEntryOpen(ad_file.sub_items[i].data).err

\* an entry of DestList is read and the cursor of the stream advances
DestListEntryRead ==
  /\ ad_pc = "dest_list_entries"
  /\ ad_stream_offset' # ad_stream_offset

\* the path_size of the DestList entry at the cursor
PathSizeAtCursor ==
  PathSizeAt(ad_file.sub_items[DestListItem(ad_file)], ad_stream_offset)

\* C13 as stated: the DestList cursor advances by 60 + 2 * path_size over a
\* valid v1 entry and by 20 more than that over a valid v3 entry.
C13_EntrySizeFrom60 ==
  [][DestListEntryRead =>
       ad_stream_offset' - ad_stream_offset =
         IF ad_format_version = Some(1)
           THEN 60 + 2 * PathSizeAtCursor
           ELSE 60 + 2 * PathSizeAtCursor + 20]_vars

\* C13 amended: the DestList cursor advances by 114 + 2 * path_size over a
\* valid v1 entry and by 20 more than that, 134 + 2 * path_size, over a valid
\* entry of version 3 or 4.
C13_EntrySizeFrom114 ==
  [][DestListEntryRead =>
       ad_stream_offset' - ad_stream_offset =
         IF ad_format_version = Some(1)
           THEN 114 + 2 * PathSizeAtCursor
           ELSE 114 + 2 * PathSizeAtCursor + 20]_vars

\* two entries of version 3, the first with a path of 3 characters and the
\* second with none, have been read
C13_Witness ==
  /\ ad_pc = "dest_list_entries"
  /\ ad_format_version = Some(3)
  /\ ad_file.sub_items[DestListItem(ad_file)].path_sizes = <<3, 0>>
  /\ ad_stream_offset = DEST_LIST_HEADER_SIZE + 140 + 134

-----------------------------------------------------------------------------
(* Properties of the attribute values of the keychain decoder *)

\* byte i of the integer attribute value in the attribute values data
AttributeByte(i) ==
  av_data[av_offset - ATTRIBUTE_VALUES_DATA_OFFSET + i]

\* the 16 most and the 16 least significant bits of an unsigned 32-bit value
High16(v) == v[1] * 256 + v[2]
Low16(v) == v[3] * 256 + v[4]

-----------------------------------------------------------------------------
(* Properties of the custom Jump List decoder: what the caller is given *)

\* ReadFileObject has returned and bytes of the file lie after the footer it
\* read: more than 4 bytes were between the cursor and the end of the file
\* after the scan of the entries
ReturnedWithTrailingData ==
  /\ cd_pc = "done"
  /\ cd_offset - FILE_FOOTER_SIZE < Len(cd_file) - 4

\* C18: whenever more than 4 bytes remain between the cursor and the end of
\* the file after the scan of the entries, what the caller is given records
\* that trailing data was detected and not recovered; ReadFileObject never
\* returns as if nothing had been skipped.
C18_TrailingDataRecorded ==
  ReturnedWithTrailingData =>
    Result(cd_entries, cd_recovered_entries, cd_error) #
      Result(cd_entries, <<>>, "none")

\* the second call of ReadFileObject on an object has ended
SecondRunEnded == cd_run = 2 /\ cd_pc \in {"done", "failed"}

\* C19: decoding is free of state kept from call to call: after a second
\* call of ReadFileObject on the same bytes with the same object the caller
\* is given what the first call gave.
C19_SecondRunSameResult ==
  SecondRunEnded =>
    Result(cd_entries, cd_recovered_entries, cd_error) = cd_first_result

\* C19, the part the code keeps: the second call ends as the first did, with
\* the same exception or none, and the entries of the first call are a prefix
\* of the entries after the second.
C19_SecondRunSameError ==
  SecondRunEnded =>
    /\ cd_error = cd_first_result.error
    /\ SubSeq(cd_entries, 1, Len(cd_first_result.entries)) =
         cd_first_result.entries

\* an entry is added to the entries
EntryAdded == Len(cd_entries') > Len(cd_entries)

\* C20: every entry of a custom Jump List has as identifier the formatted
\* offset, within the file, at which its shortcut starts, which is the offset
\* of its marker plus 16, so that no two entries of a file have the same
\* identifier.
C20_IdentifierIsShortcutOffset ==
  [][EntryAdded =>
       /\ cd_entries'[Len(cd_entries')].identifier =
            FormatOffset(cd_file_offset + ENTRY_HEADER_SIZE)
       /\ \A i, j \in 1..Len(cd_entries') :
            i # j => cd_entries'[i].identifier # cd_entries'[j].identifier]_vars

\* C20, what the code does: the identifier of every entry is the formatted
\* offset 0, the offset of the shortcut within its own data range.
C20_IdentifierIsRangeOffset ==
  [][EntryAdded =>
       cd_entries'[Len(cd_entries')].identifier = FormatOffset(0)]_vars

\* the 4 bytes at offset p of the file are the footer signature 0xbabffbab
FooterAt(p) ==
  /\ p + 4 <= Len(cd_file)
  /\ SubSeq(cd_file, p + 1, p + 4) = <<171, 251, 191, 186>>

\* a marker after the first can be read and is not the class identifier
LaterMarkerMismatch ==
  /\ ScanningEntry
  /\ cd_first_guid_checked
  /\ ~MarkerUndecodable
  /\ ~MarkerMatches

\* C21: when a marker other than the first decodes but differs from the
\* class identifier at offset p, the scan stops, a footer is decoded and
\* validated at p, the cursor is left at p, no entry is added and the last
\* footer read of ReadFileObject takes place at p again; a footer mismatch at
\* p fails with ParseError.
C21_MarkerMismatchReadsFooter ==
  [][/\ LaterMarkerMismatch =>
          /\ cd_entries' = cd_entries
          /\ IF FooterAt(cd_file_offset)
               THEN /\ cd_pc' = "footer"
                    /\ cd_offset' = cd_file_offset
                    /\ cd_error' = "none"
               ELSE /\ cd_pc' = "failed"
                    /\ cd_error' = "ParseError"
     /\ cd_pc = "footer" /\ cd_pc' = "done" =>
          /\ FooterAt(cd_offset)
          /\ cd_offset' = cd_offset + FILE_FOOTER_SIZE]_vars

\* after an entry the scan has met 16 bytes that are no marker and start
\* with the footer signature, and has left the cursor at them
C21_Witness ==
  /\ cd_pc = "footer"
  /\ cd_entries # <<>>
  /\ cd_offset = cd_file_offset
  /\ cd_offset + 16 <= Len(cd_file)
  /\ FooterAt(cd_offset)

\* header_values_type of the file header of the file
HeaderValuesType == FileHeader(SubSeq(cd_file, 1, FILE_HEADER_SIZE)).header_values_type

\* number_of_characters of a type 0 header value, the uint16 after the header
NumberOfCharacters == cd_file[FILE_HEADER_SIZE + 1] + 256 * cd_file[FILE_HEADER_SIZE + 2]

\* the offset after the one header value block that follows the file header
EntryScanStart ==
  IF HeaderValuesType = U32(0)
    THEN FILE_HEADER_SIZE + 2 + 2 * NumberOfCharacters + 4
    ELSE FILE_HEADER_SIZE + HEADER_VALUE_TYPE_1_OR_2_SIZE

\* C22: exactly one header value block is consumed after the 16-byte file
\* header, so the entry scan starts at offset 20 for header value types 1
\* and 2 and at offset 22 + 2 * number_of_characters for type 0.
C22_ScanStartsAfterHeaderValue ==
  [][cd_pc = "lnk_files" =>
       /\ cd_pc' = "scan"
       /\ cd_file_offset' = EntryScanStart
       /\ cd_remaining_file_size' = Len(cd_file) - EntryScanStart]_vars

\* C22 for header value types 1 and 2 only: the entry scan starts at
\* offset 20.
C22_Type1Or2ScanStartsAt20 ==
  [][(cd_pc = "lnk_files" /\ HeaderValuesType # U32(0)) =>
       /\ cd_pc' = "scan"
       /\ cd_file_offset' = 20
       /\ cd_remaining_file_size' = Len(cd_file) - 20]_vars

\* the entry scan of a file with header value type 1 or 2 has started
C22_Type1Or2Witness ==
  /\ cd_pc = "scan"
  /\ HeaderValuesType \in {U32(1), U32(2)}
  /\ cd_file_offset = 20
  /\ cd_entries = <<>>
  /\ cd_remaining_file_size > 4

\* the column the schema attributes record read by the step describes: its
\* attribute identifier, and its attribute name or, without a name, the
\* 4 bytes of the identifier
RecordColumn ==
  LET offsets == kc_input'.attribute_value_offsets
      data == kc_input'.attribute_values_data
      attribute_identifier ==
        ReadAttributeValueInteger(data, ATTRIBUTE_VALUES_DATA_OFFSET, offsets[2])
      attribute_name ==
        ReadAttributeValueString(data, ATTRIBUTE_VALUES_DATA_OFFSET, offsets[4])
      first == offsets[2] - (ATTRIBUTE_VALUES_DATA_OFFSET + 1)
  IN  Column(attribute_identifier.val,
             IF attribute_name.val.isNone /\ offsets[2] # 0
               THEN Some(PySlice(data, first, first + 4))
               ELSE attribute_name.val)

\* the step appends the column of the record at the end of the columns of
\* the table of the record, and changes nothing else of the registry
OneColumnAppended ==
  /\ Len(kc_tables') = Len(kc_tables)
  /\ \A i \in 1..Len(kc_tables) :
       /\ kc_tables'[i].relation_identifier = kc_tables[i].relation_identifier
       /\ kc_tables'[i].relation_name = kc_tables[i].relation_name
       /\ kc_tables'[i].columns =
            IF kc_tables[i].relation_identifier = kc_record'.relation_identifier.v
              THEN Append(kc_tables[i].columns, RecordColumn)
              ELSE kc_tables[i].columns

\* C23: when the relation_identifier of a schema attributes record resolves
\* to a registered table, exactly one column is appended at the end of the
\* columns of that table, carrying the decoded attribute_identifier and
\* attribute_name; the registered tables, their order and the columns of
\* every other table are unchanged.
C23_ResolvedAppendsOneColumn ==
  [][(AttributesStep /\ ~NoTableForRecord) => OneColumnAppended]_vars

\* C23 for the records the decoder accepts: the column is appended and
\* nothing else of the registry changes.
C23_AcceptedAppendsOneColumn ==
  [][(AttributesStep /\ kc_record'.accepted) => OneColumnAppended]_vars

\* a second column has been appended to a table while another table is
\* registered
C23_Witness ==
  /\ kc_record.kind = "attributes"
  /\ kc_record.accepted
  /\ Len(kc_tables) = 2
  /\ \E i \in 1..2 :
       /\ kc_tables[i].relation_identifier = kc_record.relation_identifier.v
       /\ Len(kc_tables[i].columns) = 2

\* the kind of record the handler of a record type reads
KindOfRecordType(record_type) ==
  CASE record_type = RECORD_TYPE_CSSM_DL_DB_SCHEMA_INFO -> "information"
    [] record_type = RECORD_TYPE_CSSM_DL_DB_SCHEMA_INDEXES -> "indexes"
    [] record_type = RECORD_TYPE_CSSM_DL_DB_SCHEMA_ATTRIBUTES -> "attributes"
    [] OTHER -> "opaque"

\* the step ends the pass of the loop over the record offsets: the loop goes
\* on with the next record offset of the table header, or after the last
\* record offset with the next table or the end of the tables
RecordPassEnds ==
  IF kc_recIdx < Len(kc_table_header.record_offsets)
    THEN /\ kc_pc' = "record"
         /\ kc_recIdx' = kc_recIdx + 1
         /\ kc_table_header' = kc_table_header
         /\ kc_tableIdx' = kc_tableIdx
    ELSE IF kc_tableIdx < Len(kc_tables_array.table_offsets)
           THEN kc_pc' = "table" /\ kc_tableIdx' = kc_tableIdx + 1
           ELSE kc_pc' = "done"

\* C24: tables are processed in the order of the tables array; within a
\* table a record offset of 0 is skipped with no record decoded and no state
\* change, and every other record offset is decoded once, in array order, at
\* that offset relative to the start of its table header, by the handler of
\* the record type of the table (0 schema information, 1 schema indexes,
\* 2 schema attributes, any other value a record that changes no table).
C24_TablesTraversedInOrder ==
  [][/\ kc_pc = "tables_array" /\ kc_pc' = "table" => kc_tableIdx' = 1
     /\ kc_pc = "table" /\ kc_pc' # "failed" =>
          /\ kc_table_header'.offset = kc_tables_array.offset
               + kc_tables_array.table_offsets[kc_tableIdx]
          /\ kc_table_header'.record_offsets # <<>> =>
               kc_pc' = "record" /\ kc_recIdx' = 1
     /\ kc_pc' = "done" => kc_tableIdx = Len(kc_tables_array.table_offsets)
     /\ kc_pc' = "table" /\ kc_pc # "tables_array" =>
          /\ kc_tableIdx' = kc_tableIdx + 1
          /\ kc_pc = "record" =>
               kc_recIdx = Len(kc_table_header.record_offsets)
     /\ kc_pc = "record" /\ CurrentRecordOffset = 0 =>
          /\ RecordPassEnds
          /\ kc_record'.kind = "skipped"
          /\ kc_record_offset' = kc_record_offset
          /\ kc_input' = kc_input
          /\ kc_tables' = kc_tables
          /\ kc_error' = kc_error
     /\ kc_pc = "record" /\ CurrentRecordOffset # 0 =>
          /\ kc_record_offset' = kc_table_header.offset + CurrentRecordOffset
          /\ kc_record'.kind = KindOfRecordType(kc_table_header.record_type)
          /\ kc_record'.kind = "opaque" => kc_tables' = kc_tables
          /\ kc_pc' # "failed" => RecordPassEnds]_vars

\* the second of two tables, which comes first in the file, has been
\* traversed: its first record offset was skipped and the record at its
\* second record offset was decoded
C24_Witness ==
  /\ kc_pc = "done"
  /\ Len(kc_tables_array.table_offsets) = 2
  /\ kc_tables_array.table_offsets[1] > kc_tables_array.table_offsets[2]
  /\ kc_table_header.offset = kc_tables_array.offset + kc_tables_array.table_offsets[2]
  /\ kc_table_header.record_offsets = <<0, 40>>
  /\ kc_record_offset = kc_table_header.offset + 40
  /\ kc_record.accepted

\* the bytes the last entry of self.entries took from the file after its
\* marker
LastConsumed == cd_entries'[Len(cd_entries')].data_size

\* a pass of the loop of the entry scan after which the loop goes on
ScanGoesOn == cd_pc = "scan" /\ cd_pc' = "scan"

\* C25: the entry scan terminates on every file: each pass of the loop
\* either leaves the loop or advances the cursor by 16 plus the bytes the
\* shortcut consumed and decreases the remaining size by as much, so cursor
\* plus remaining size stays the file size and the loop ends.
C25_EntryScanTerminates ==
  /\ [](cd_pc = "scan" =>
          /\ cd_offset = cd_file_offset
          /\ cd_file_offset + cd_remaining_file_size = Len(cd_file)
          /\ cd_remaining_file_size >= 0)
  /\ [][ScanGoesOn =>
          /\ cd_remaining_file_size > 4
          /\ Len(cd_entries') = Len(cd_entries) + 1
          /\ LastConsumed > 0
          /\ cd_offset' = cd_offset + 16 + LastConsumed
          /\ cd_file_offset' = cd_file_offset + 16 + LastConsumed
          /\ cd_remaining_file_size' =
               cd_remaining_file_size - (16 + LastConsumed)]_vars
  /\ (cd_pc = "scan" ~> cd_pc \in {"footer", "failed"})

\* the loop has ended after two passes that advanced, because of the
\* remaining size
C25_Witness ==
  /\ cd_pc = "footer"
  /\ Len(cd_entries) = 2
  /\ cd_remaining_file_size <= 4
  /\ cd_file_offset = 20 + 16 + cd_entries[1].data_size
                         + 16 + cd_entries[2].data_size

\* the indexes of the attribute value offsets a schema attributes record is
\* read with (the fifth is not read)
ReadOffsetIndexes == {1, 2, 3, 4, 6}

\* the index in the attribute values data an attribute value offset
\* resolves to
BlobIndex(attribute_value_offset) ==
  attribute_value_offset - (ATTRIBUTE_VALUES_DATA_OFFSET + 1)

\* a step of _ReadRecordSchemaAttributes on a record with an attribute value
\* offset that is set and resolves to an index before the start of the
\* attribute values data
NegativeIndexStep ==
  /\ AttributesStep
  /\ kc_input'.readable
  /\ \E k \in ReadOffsetIndexes :
       /\ kc_input'.attribute_value_offsets[k] # 0
       /\ BlobIndex(kc_input'.attribute_value_offsets[k]) < 0

\* the same, for an index past the end of the attribute values data
IndexPastEndStep ==
  /\ AttributesStep
  /\ kc_input'.readable
  /\ \E k \in ReadOffsetIndexes :
       BlobIndex(kc_input'.attribute_value_offsets[k])
         >= Len(kc_input'.attribute_values_data)

\* C26: an attribute value offset of a schema attributes record that is set
\* and resolves to an index that is negative or past the end of the
\* attribute values data makes the decode fail with ParseError; no value is
\* read from another position of the data.
C26_OffsetsBoundsSafe ==
  [][(NegativeIndexStep \/ IndexPastEndStep) =>
       /\ kc_pc' = "failed"
       /\ kc_error' = "ParseError"
       /\ kc_record'.relation_identifier.isNone
       /\ kc_tables' = kc_tables]_vars

\* C26 for an index past the end of the attribute values data only: the
\* decode fails with ParseError.
C26_IndexPastEndFails ==
  [][IndexPastEndStep =>
       /\ kc_pc' = "failed"
       /\ kc_error' = "ParseError"
       /\ kc_tables' = kc_tables]_vars

\* ReadFileObject has returned or raised
AEnded == ad_pc \in {"done", "failed"}

\* C27: once ReadFileObject has opened the container, the container is
\* closed exactly once before ReadFileObject returns or raises, on every
\* path: success, a DestList that cannot be decoded, an unsupported version
\* and a shortcut that cannot be decoded.
C27_ClosedExactlyOnce ==
  /\ [](ad_closes \in {0, 1})
  /\ [](ad_open => ~AEnded /\ ad_closes = 0)
  /\ []((AEnded /\ ad_file.readable) => ~ad_open /\ ad_closes = 1)
  /\ [][/\ ad_pc = "start" /\ ad_file.readable => ad_open'
        /\ ad_closes' # ad_closes =>
             /\ ad_open /\ ~ad_open'
             /\ ad_closes' = ad_closes + 1
             /\ ~AEnded /\ AEnded']_vars

\* a shortcut stream after the first could not be decoded: ReadFileObject
\* has raised and the container was closed once
C27_Witness ==
  /\ ad_pc = "failed"
  /\ ad_error.type = "ParseError"
  /\ ad_error.stream # ""
  /\ ad_entries # <<>>
  /\ ~ad_open
  /\ ad_closes = 1

========================================================================
